---- MODULE Spec2Model ----
(***************************************************************************)
(* Model of trial1/langextract1.py: the chunker create_overlapping_chunks, *)
(* the chunk/pass loop of process_pdf with its seen-set deduplication, the *)
(* assembly of the AnnotatedDocument, and format_fund_info.                *)
(*                                                                         *)
(* The document text is modelled by its length (the chunker reads nothing  *)
(* else) and by whether it is blank (text_content.strip() is empty).  A    *)
(* chunk is the pair <<start, end>> of the slice text[start:end].  The     *)
(* oracle lx.extract is opaque: each call either raises or returns any     *)
(* sequence of extractions.                                                *)
(***************************************************************************)
EXTENDS Integers, Sequences, FiniteSets, TLC

\* ---------------------------------------------------------------- bounds
MaxLen == 6         \* longest text handed to the chunker on its own
MaxSize == 3        \* largest chunk_size handed to the chunker on its own
MaxOverlap == 3     \* largest overlap handed to the chunker on its own
MaxDocLen == 3      \* longest document of a whole process_pdf run
MaxDocSize == 2     \* largest max_chunk_size and chunk_overlap of a whole run
MaxPasses == 2      \* largest configured extraction_passes
MaxCalls == 4       \* most oracle calls of a whole run: text length times passes
MaxResultLen == 2   \* most extractions one oracle call returns

\* The worked scenario of the chunker: length 1000, size 400, overlap 100.
Scenario == [len |-> 1000, size |-> 400, overlap |-> 100]

\* ------------------------------------------------------------ extractions
Classes == {"isin", "fund_name"}
Texts == {"X"}
AttributeMaps == {{}, {<<"currency", "USD">>}}

\* lx.data.Extraction
Extraction == [extraction_class : Classes, extraction_text : Texts, attributes : AttributeMaps]

\* What one successful oracle call can return: result.extractions
OracleResults == UNION {[1..n -> Extraction] : n \in 0..MaxResultLen}

Identities == Classes \X Texts

VARIABLES
    text_length,        \* len(text_content)
    blank,              \* not text_content.strip()
    max_chunk_size,     \* config['max_chunk_size']
    chunk_overlap,      \* config['chunk_overlap']
    extraction_passes,  \* config['extraction_passes']
    pc,                 \* "read", "chunking", "extracting", "done", "formatted"
    start,              \* the chunker's start
    text_chunks,        \* the chunks produced so far, as <<start, end>>
    i,                  \* enumerate(text_chunks, 1): the current chunk
    pass_num,           \* range(extraction_passes): the current pass
    chunk_results,
    all_results,
    seen_extractions,
    calls,              \* the lx.extract calls made, as <<i, pass_num>>
    errors,             \* the number of logger.error lines: the passes that failed
    first_seen,         \* per identity: where the oracle first returned it, and its attributes
    repeats,            \* the identities the oracle returned again with other attributes
    retval,             \* what process_pdf returned
    fund_info           \* what format_fund_info returned

vars == <<text_length, blank, max_chunk_size, chunk_overlap, extraction_passes, pc,
          start, text_chunks, i, pass_num, chunk_results, all_results,
          seen_extractions, calls, errors, first_seen, repeats, retval, fund_info>>

config == <<text_length, blank, max_chunk_size, chunk_overlap, extraction_passes>>
oracle_state == <<i, pass_num, chunk_results, all_results, seen_extractions, calls,
                  errors, first_seen, repeats>>

\* ---------------------------------------------------------------- chunker
\* Mutant of ChunkEnd: the end is not clipped to the text's length.
ChunkEndUnclipped(s) == s + max_chunk_size

\* end = start + chunk_size, clipped to text_length
ChunkEnd(s) ==
    IF s + max_chunk_size > text_length THEN text_length ELSE s + max_chunk_size

\* Mutant of NextStart: the overlap is added instead of subtracted.
NextStartSkips(end) ==
    IF end < text_length THEN end + chunk_overlap ELSE text_length

\* Mutant of NextStart: the start steps back by the overlap after the final chunk too.
NextStartNoFinal(end) == end - chunk_overlap

\* start = end - overlap if end < text_length else text_length
NextStart(end) ==
    IF end < text_length THEN end - chunk_overlap ELSE text_length

\* A run of the loop that cannot end stops here in the model.
MaxChunks == MaxLen

\* One iteration of `while start < text_length`
ChunkStep ==
    /\ pc = "chunking"
    /\ start < text_length
    /\ Len(text_chunks) < MaxChunks
    /\ text_chunks' = Append(text_chunks, <<start, ChunkEnd(start)>>)
    /\ start' = NextStart(ChunkEnd(start))
    /\ UNCHANGED <<config, pc, oracle_state, retval, fund_info>>

\* The loop's exit: return chunks
ChunkReturn ==
    /\ pc = "chunking"
    /\ ~(start < text_length)
    /\ pc' = "extracting"
    /\ UNCHANGED <<config, start, text_chunks, oracle_state, retval, fund_info>>

\* ------------------------------------------------------------ process_pdf
NoResult == [kind |-> "None", extractions |-> <<>>]
Pending == [kind |-> "pending", extractions |-> <<>>]
NotSeen == [at |-> <<0, 0, 0>>, attributes |-> {}]
EmptyDict == [k \in {} |-> "None"]

\* if not text_content.strip(): return None
ReadText ==
    /\ pc = "read"
    /\ IF blank
       THEN pc' = "done" /\ retval' = NoResult
       ELSE pc' = "chunking" /\ retval' = retval
    /\ UNCHANGED <<config, start, text_chunks, oracle_state, fund_info>>

\* extraction_key = (extraction.extraction_class, extraction.extraction_text)
ExtractionKey(e) == <<e.extraction_class, e.extraction_text>>

\* Mutant of FilterDuplicates: the seen-set is filled but never consulted.
RECURSIVE FilterKeepsAll(_, _, _)
FilterKeepsAll(result, seen, out) ==
    IF result = <<>>
    THEN [seen |-> seen, chunk_results |-> out]
    ELSE FilterKeepsAll(Tail(result), seen \cup {ExtractionKey(Head(result))},
                        Append(out, Head(result)))

\* for extraction in result.extractions: append and add to the seen-set when the
\* key is not in it
RECURSIVE FilterDuplicates(_, _, _)
FilterDuplicates(result, seen, out) ==
    IF result = <<>>
    THEN [seen |-> seen, chunk_results |-> out]
    ELSE LET extraction == Head(result)
             extraction_key == ExtractionKey(extraction)
         IN  IF extraction_key \notin seen
             THEN FilterDuplicates(Tail(result), seen \cup {extraction_key},
                                   Append(out, extraction))
             ELSE FilterDuplicates(Tail(result), seen, out)

\* The record of the oracle's answers: an identity's first occurrence is the first
\* position in the first call that returned it.
FirstSeenAfter(result) ==
    [id \in Identities |->
        LET at == {k \in 1..Len(result) : ExtractionKey(result[k]) = id}
        IN  IF first_seen[id] # NotSeen \/ at = {}
            THEN first_seen[id]
            ELSE LET k == CHOOSE k \in at : \A m \in at : k <= m
                 IN  [at |-> <<i, pass_num, k>>, attributes |-> result[k].attributes]]

\* The record of the oracle's answers: the identities it returned again, after
\* their first occurrence, with attributes other than the first occurrence's.
RepeatsIn(result) ==
    LET first == FirstSeenAfter(result)
    IN  {id \in Identities :
            \E k \in 1..Len(result) :
                /\ ExtractionKey(result[k]) = id
                /\ first[id].at # <<i, pass_num, k>>
                /\ first[id].attributes # result[k].attributes}

\* Mutant of EndOfPass: a chunk's results are put before those of earlier chunks.
EndOfPassPrepends(results) ==
    IF pass_num + 1 < extraction_passes
    THEN /\ chunk_results' = results
         /\ pass_num' = pass_num + 1
         /\ UNCHANGED <<i, all_results>>
    ELSE /\ all_results' = results \o all_results
         /\ chunk_results' = <<>>
         /\ pass_num' = 0
         /\ i' = i + 1

\* The end of one iteration of `for pass_num in range(extraction_passes)`; after
\* the last pass, all_results.extend(chunk_results) and the next chunk begins.
EndOfPass(results) ==
    IF pass_num + 1 < extraction_passes
    THEN /\ chunk_results' = results
         /\ pass_num' = pass_num + 1
         /\ UNCHANGED <<i, all_results>>
    ELSE /\ all_results' = all_results \o results
         /\ chunk_results' = <<>>
         /\ pass_num' = 0
         /\ i' = i + 1

\* One pass whose lx.extract call returns `result`
PassOk ==
    /\ pc = "extracting"
    /\ i <= Len(text_chunks)
    /\ \E result \in OracleResults :
          LET kept == FilterDuplicates(result, seen_extractions, chunk_results)
          IN  /\ seen_extractions' = kept.seen
              /\ first_seen' = FirstSeenAfter(result)
              /\ repeats' = repeats \cup RepeatsIn(result)
              /\ EndOfPass(kept.chunk_results)
    /\ calls' = Append(calls, <<i, pass_num>>)
    /\ UNCHANGED <<config, pc, start, text_chunks, errors, retval, fund_info>>

\* Mutant of PassError: `break` in place of `continue`, the chunk's later passes
\* are skipped.
PassErrorBreaks ==
    /\ pc = "extracting"
    /\ i <= Len(text_chunks)
    /\ calls' = Append(calls, <<i, pass_num>>)
    /\ errors' = errors + 1
    /\ all_results' = all_results \o chunk_results
    /\ chunk_results' = <<>>
    /\ pass_num' = 0
    /\ i' = i + 1
    /\ UNCHANGED <<config, pc, start, text_chunks, seen_extractions, first_seen,
                   repeats, retval, fund_info>>

\* Mutant of PassError: the failure comes after the answer's first extraction
\* has been admitted.
PassErrorPartial ==
    /\ pc = "extracting"
    /\ i <= Len(text_chunks)
    /\ \E result \in OracleResults :
          /\ result # <<>>
          /\ LET partial == <<Head(result)>>
                 kept == FilterDuplicates(partial, seen_extractions, chunk_results)
             IN  /\ seen_extractions' = kept.seen
                 /\ first_seen' = FirstSeenAfter(partial)
                 /\ repeats' = repeats \cup RepeatsIn(partial)
                 /\ EndOfPass(kept.chunk_results)
    /\ calls' = Append(calls, <<i, pass_num>>)
    /\ errors' = errors + 1
    /\ UNCHANGED <<config, pc, start, text_chunks, retval, fund_info>>

\* One pass whose lx.extract call raises: except Exception: logger.error; continue
PassError ==
    /\ pc = "extracting"
    /\ i <= Len(text_chunks)
    /\ calls' = Append(calls, <<i, pass_num>>)
    /\ errors' = errors + 1
    /\ EndOfPass(chunk_results)
    /\ UNCHANGED <<config, pc, start, text_chunks, seen_extractions, first_seen,
                   repeats, retval, fund_info>>

\* Mutant of Assemble: a document is built from an empty list too.
AssembleAlways(results) == [kind |-> "AnnotatedDocument", extractions |-> results]

\* if all_results: return AnnotatedDocument(text, all_results); return None
Assemble(results) ==
    IF results # <<>>
    THEN [kind |-> "AnnotatedDocument", extractions |-> results]
    ELSE NoResult

\* The chunk loop is over: process_pdf returns
Return ==
    /\ pc = "extracting"
    /\ i > Len(text_chunks)
    /\ retval' = Assemble(all_results)
    /\ pc' = "done"
    /\ UNCHANGED <<config, start, text_chunks, oracle_state, fund_info>>

\* -------------------------------------------------------- format_fund_info
FundInfoKeys == {"isin", "asset_class", "expense_ratio", "issuer", "attributes"}

NewFundInfo ==
    [isin |-> "None", asset_class |-> "None", expense_ratio |-> "None",
     issuer |-> "None", attributes |-> EmptyDict]

\* fund_info['attributes'][extraction_class] = extraction.attributes
SetItem(dict, key, value) ==
    [k \in DOMAIN dict \cup {key} |-> IF k = key THEN value ELSE dict[k]]

\* for extraction in result.extractions: ...
RECURSIVE FormatLoop(_, _)
FormatLoop(extractions, info) ==
    IF extractions = <<>>
    THEN info
    ELSE LET extraction == Head(extractions)
             cls == extraction.extraction_class
             named == IF cls \in FundInfoKeys
                      THEN [info EXCEPT ![cls] = extraction.extraction_text]
                      ELSE info
             folded == IF cls \in FundInfoKeys /\ extraction.attributes # {}
                       THEN [named EXCEPT !.attributes =
                                 SetItem(named.attributes, cls, extraction.attributes)]
                       ELSE named
         IN  FormatLoop(Tail(extractions), folded)

\* if not result or not result.extractions: return {}
format_fund_info(result) ==
    IF result.kind = "None" \/ result.extractions = <<>>
    THEN EmptyDict
    ELSE FormatLoop(result.extractions, NewFundInfo)

FormatFundInfo ==
    /\ pc = "done"
    /\ fund_info' = format_fund_info(retval)
    /\ pc' = "formatted"
    /\ UNCHANGED <<config, start, text_chunks, oracle_state, retval>>

\* ---------------------------------------------------------- specifications
Start ==
    /\ start = 0
    /\ text_chunks = <<>>
    /\ i = 1
    /\ pass_num = 0
    /\ chunk_results = <<>>
    /\ all_results = <<>>
    /\ seen_extractions = {}
    /\ calls = <<>>
    /\ errors = 0
    /\ first_seen = [id \in Identities |-> NotSeen]
    /\ repeats = {}
    /\ retval = Pending
    /\ fund_info = EmptyDict

\* A whole run of process_pdf followed by format_fund_info, for every
\* configuration: the script validates none of the loaded values.
Init ==
    /\ text_length \in 0..MaxDocLen
    /\ blank \in BOOLEAN
    /\ text_length = 0 => blank
    /\ max_chunk_size \in 0..MaxDocSize
    /\ chunk_overlap \in 0..MaxDocSize
    /\ extraction_passes \in 1..MaxPasses
    /\ text_length * extraction_passes <= MaxCalls
    /\ pc = "read"
    /\ Start

Next ==
    \/ ReadText
    \/ ChunkStep
    \/ ChunkReturn
    \/ PassOk
    \/ PassError
    \/ Return
    \/ FormatFundInfo

Spec == Init /\ [][Next]_vars

\* The run with the scheduling of a sequential script: it takes its next step.
FairSpec == Spec /\ WF_vars(Next)

\* create_overlapping_chunks on its own, applied to every text length, size and
\* overlap of the bounds and to the worked scenario.
ChunkInit ==
    /\ \/ /\ text_length \in 0..MaxLen
          /\ max_chunk_size \in 0..MaxSize
          /\ chunk_overlap \in 0..MaxOverlap
       \/ /\ text_length = Scenario.len
          /\ max_chunk_size = Scenario.size
          /\ chunk_overlap = Scenario.overlap
    /\ blank = (text_length = 0)
    /\ extraction_passes = 1
    /\ pc = "chunking"
    /\ Start

ChunkNext ==
    \/ ChunkStep
    \/ ChunkReturn

ChunkSpec == ChunkInit /\ [][ChunkNext]_vars

\* ----------------------------------------------------------------- claims
Returned == retval.kind # "pending"
ValidConfig == 0 <= chunk_overlap /\ chunk_overlap < max_chunk_size
ChunksReturned == pc = "extracting" /\ calls = <<>>
Occurrences(extractions, id) ==
    {k \in 1..Len(extractions) : ExtractionKey(extractions[k]) = id}
LexLess(a, b) ==
    \/ a[1] < b[1]
    \/ a[1] = b[1] /\ a[2] < b[2]
    \/ a[1] = b[1] /\ a[2] = b[2] /\ a[3] < b[3]
Ceil(a, b) == (a + b - 1) \div b
ChunkStart(c) == text_chunks[c][1]
ChunkStop(c) == text_chunks[c][2]
\* The (chunk, pass) pairs in processing order.
ExpectedCalls ==
    [n \in 1..(Len(text_chunks) * extraction_passes) |->
        <<((n - 1) \div extraction_passes) + 1, (n - 1) % extraction_passes>>]
\* The scalar fields of the fund record.
KnownFields == {"isin", "asset_class", "expense_ratio", "issuer"}

\* C1: the returned extraction list holds an identity (class, text) at most once,
\* holds it exactly when the oracle ever returned it, and holds it with the
\* attributes of its first occurrence in processing order; a later occurrence,
\* whatever its attributes, changes nothing.
C1_FirstOccurrenceWins ==
    Returned =>
        \A id \in Identities :
            LET at == Occurrences(retval.extractions, id)
            IN  /\ Cardinality(at) <= 1
                /\ first_seen[id] = NotSeen => at = {}
                /\ first_seen[id] # NotSeen =>
                      \E k \in at :
                          retval.extractions[k].attributes = first_seen[id].attributes

C1_Witness ==
    /\ retval.kind = "AnnotatedDocument"
    /\ repeats # {}
    /\ Len(calls) >= 2

\* C2: for 0 <= overlap < size the chunks returned cover every position of
\* [0, len(text)) and the last chunk ends at len(text).
C2_ChunkCoverage ==
    (ChunksReturned /\ ValidConfig) =>
        /\ \A p \in 0..(text_length - 1) :
              \E c \in 1..Len(text_chunks) : ChunkStart(c) <= p /\ p < ChunkStop(c)
        /\ text_chunks # <<>> => ChunkStop(Len(text_chunks)) = text_length

C2_Witness ==
    /\ ChunksReturned
    /\ ValidConfig
    /\ Len(text_chunks) >= 3
    /\ chunk_overlap > 0

\* C3: with chunk size 0 or overlap >= chunk size no chunk is ever produced and no
\* oracle call is ever made.
C3_FailsFast ==
    (max_chunk_size = 0 \/ chunk_overlap >= max_chunk_size) =>
        text_chunks = <<>> /\ calls = <<>>

\* C4: whatever passes fail, a run that returns has called the oracle exactly once
\* for every (chunk, pass) pair, in order, and a run that has begun extracting
\* does return.
C4_PassIsolation ==
    /\ [](Returned => calls = ExpectedCalls)
    /\ [](pc = "extracting" => <>Returned)

C4_Witness ==
    /\ Returned
    /\ Len(text_chunks) >= 2
    /\ extraction_passes >= 2
    /\ errors = Len(calls) - 1
    /\ \E id \in Identities :
          first_seen[id].at[1] = Len(text_chunks)
          /\ first_seen[id].at[2] = extraction_passes - 1

\* C5: the returned extractions are in the order of their first occurrence:
\* (chunk, pass, position in the oracle's answer), compared lexicographically.
C5_OrderPreserved ==
    Returned =>
        \A p, q \in 1..Len(retval.extractions) :
            p < q =>
                LexLess(first_seen[ExtractionKey(retval.extractions[p])].at,
                        first_seen[ExtractionKey(retval.extractions[q])].at)

C5_Witness ==
    /\ Returned
    /\ Len(retval.extractions) = 2
    /\ first_seen[ExtractionKey(retval.extractions[1])].at[1] = 1
    /\ first_seen[ExtractionKey(retval.extractions[2])].at[1] = 2
    /\ repeats # {}

\* C6: when every pass of every chunk failed, process_pdf returns None, as it does
\* when the oracle answered and nothing was extracted.
C6_AllFailedIsEmpty ==
    (Returned /\ (errors = Len(calls) \/ \A id \in Identities : first_seen[id] = NotSeen)) =>
        retval = NoResult

C6_Witness ==
    /\ Returned
    /\ Len(calls) >= 2
    /\ errors = Len(calls)
    /\ retval = NoResult

\* C7: for 0 <= overlap < size every chunk has 0 <= start < end <= len(text) and
\* end = min(start + size, len(text)); the first starts at 0, each next one starts
\* at the previous end minus the overlap, every chunk but the last has length size
\* and only the last ends at len(text); the scenario yields its three chunks.
C7_ChunkShape ==
    (pc \in {"chunking", "extracting"} /\ ValidConfig) =>
        /\ \A c \in 1..Len(text_chunks) :
              /\ 0 <= ChunkStart(c)
              /\ ChunkStart(c) < ChunkStop(c)
              /\ ChunkStop(c) <= text_length
              /\ ChunkStop(c) = IF ChunkStart(c) + max_chunk_size < text_length
                                THEN ChunkStart(c) + max_chunk_size
                                ELSE text_length
              /\ c = 1 => ChunkStart(c) = 0
              /\ c > 1 => ChunkStart(c) = ChunkStop(c - 1) - chunk_overlap
              /\ c < Len(text_chunks) =>
                    /\ ChunkStop(c) - ChunkStart(c) = max_chunk_size
                    /\ ChunkStop(c) < text_length
        /\ (ChunksReturned /\ text_length = Scenario.len) =>
              text_chunks = <<<<0, 400>>, <<300, 700>>, <<600, 1000>>>>

C7_Witness ==
    /\ ChunksReturned
    /\ text_length = Scenario.len
    /\ max_chunk_size = Scenario.size
    /\ chunk_overlap = Scenario.overlap
    /\ Len(text_chunks) = 3

C9_FoldsUnknownClasses ==
    (pc = "formatted" /\ retval.kind = "AnnotatedDocument") =>
        /\ DOMAIN fund_info = FundInfoKeys
        /\ \A k \in 1..Len(retval.extractions) :
              LET cls == retval.extractions[k].extraction_class
              IN  /\ cls \in KnownFields => fund_info[cls] \in Texts
                  /\ cls \notin KnownFields => cls \in DOMAIN fund_info.attributes

\* C10: a step that logs a failed pass leaves the seen-set and the accumulated
\* extractions (those of earlier chunks, then those of this chunk so far) as they
\* were, and no step ever removes an identity from the seen-set.
C10_FailedPassContributesNothing ==
    [][/\ errors' # errors =>
            /\ seen_extractions' = seen_extractions
            /\ all_results' \o chunk_results' = all_results \o chunk_results
       /\ seen_extractions \subseteq seen_extractions']_vars

C10_Witness ==
    /\ errors = 1
    /\ calls = <<<<1, 0>>, <<1, 1>>>>
    /\ first_seen[<<"isin", "X">>].at = <<1, 0, 1>>
    /\ seen_extractions = {<<"isin", "X">>}
    /\ Len(all_results \o chunk_results) = 1

====
